---- MODULE Spec2Model ----
(***************************************************************************)
(* Model of libmotop/console.py: the Block table renderer, the Console     *)
(* display surface (terminal mode, keystroke polling, composite refresh,   *)
(* prompting) and the DeactiveConsole inverse scope.                       *)
(*                                                                         *)
(* Text is a sequence of one-character strings.  Time is counted in units  *)
(* of 0.05 s, so that one time.sleep(0.1) is SleepUnits = 2 units and      *)
(* processing times that are not multiples of 0.1 s can be expressed.      *)
(***************************************************************************)
EXTENDS Integers, Sequences, FiniteSets

VARIABLES
    py3,            \* interpreter: TRUE Python 3 ("/" is true division), FALSE Python 2
    stdoutTty,      \* sys.stdout.isatty()
    columnHeaders,  \* Block.__columnHeaders, per block
    columnWidths,   \* Block.__columnWidths, per block
    lines,          \* Block.__lines, per block (NoLines before the first reset)
    out,            \* lines written to standard output by the running/last operation
    raised,         \* exception that left the last operation ("" when it returned)
    lastCall,       \* the last call and its arguments (observation only)
    pc,             \* the operation of Console in progress ("idle" for none)
    now,            \* datetime.now(), in units of 0.05 s
    lastCheckTime,  \* Console.__lastCheckTime (NoTime for None)
    waitTime,       \* the local waitTime of the running checkButton
    fpExtra,        \* the float waitTime ended a hair above zero rather than at zero
    stdinBytes,     \* bytes waiting on standard input
    calls,          \* number of checkButton calls made so far (observation only)
    pollLog,        \* the last two checkButton calls (observation only)
    stdinTty,       \* standard input is an interactive terminal
    termAttrs,      \* the line-discipline settings of the terminal
    settings,       \* Console.__settings
    scope,          \* "in" between Console.__enter__ and __exit__ of the with statement
    attrSet,        \* terminal attributes were set at least once (observation only)
    beforeEnter,    \* termAttrs just before the last enter (observation only)
    scopeAsks,      \* outcomes of the askForInput calls of this scope (observation only)
    rawAtCall,      \* raw mode was active when askForInput was called (observation only)
    attributes,     \* the attributes of the running/last askForInput
    askIdx,         \* position of its loop
    values,         \* its values list
    stdinLines,     \* the lines the user is still going to type
    script,         \* the lines the user had to type at the call (observation only)
    prompts,        \* the prompts issued (observation only)
    consoleHeight,  \* Console.__height
    consoleWidth,   \* Console.__width
    winsize,        \* what the TIOCGWINSZ query answers at present
    resizes,        \* SIGWINCH signals handled so far
    refreshBlocks,  \* the blocks handed to the running/last refresh
    refreshIdx,     \* position of its loop
    leftHeight,     \* its leftHeight
    refreshLog,     \* what it did with each block so far (observation only)
    cellValue,      \* the value handed to Block.__cell
    cellText,       \* the text Block.__cell returned for it
    passes          \* prints of the same block with the same arguments in a row

cfgVars == <<py3, stdoutTty>>
cellVars == <<cellValue, cellText>>
layoutVars == <<passes>>
blockVars == <<columnHeaders, columnWidths, lines>>
outVars == <<out, raised, lastCall>>
pollVars == <<now, lastCheckTime, waitTime, fpExtra, stdinBytes, calls, pollLog>>
termVars == <<stdinTty, termAttrs, settings, scope, attrSet, beforeEnter, scopeAsks>>
sizeVars == <<consoleHeight, consoleWidth, winsize, resizes>>
refreshVars == <<refreshBlocks, refreshIdx, leftHeight, refreshLog>>
askVars == <<rawAtCall, attributes, askIdx, values, stdinLines, script, prompts>>
vars == <<py3, stdoutTty, columnHeaders, columnWidths, lines, out, raised, lastCall,
          pc, now, lastCheckTime, waitTime, fpExtra, stdinBytes, calls, pollLog,
          stdinTty, termAttrs, settings, scope, attrSet, beforeEnter, scopeAsks,
          rawAtCall, attributes, askIdx, values, stdinLines, script, prompts,
          consoleHeight, consoleWidth, winsize, resizes, refreshBlocks, refreshIdx, leftHeight, refreshLog,
          cellValue, cellText, passes>>

----------------------------------------------------------------------------
(* Bounds of the model *)
MaxRows == 2        \* row sets of every length up to MaxRows are handed to reset
LongRows == 10      \* and row sets of this length
MaxHeight == 5      \* largest height handed to print
MaxWidth == 13      \* largest width handed to print
MaxCalls == 3       \* checkButton calls followed
MaxProcess == 12    \* longest processing time between two checkButton calls, in units
MaxKeys == 1        \* most bytes waiting on standard input
MaxNames == 2       \* most attributes handed to askForInput
MaxBlocks == 2      \* most blocks handed to refresh
MaxTermHeight == 8  \* tallest terminal, next to the fallback size
MaxExp == 9         \* numbers handed to __cell reach 9999 * 1000^MaxExp
MaxResizes == 2     \* SIGWINCH signals delivered
MaxPasses == 3       \* prints of a block with the same arguments in a row
MaxSmall == 30      \* whole numbers up to MaxSmall are all handed to __cell

----------------------------------------------------------------------------
(* Text helpers *)
Min(a, b) == IF a < b THEN a ELSE b
Max(a, b) == IF a > b THEN a ELSE b

Spaces(n) == [i \in 1..n |-> " "]

\* str.ljust(width)
Ljust(s, width) == IF Len(s) >= width THEN s ELSE s \o Spaces(width - Len(s))

SliceTo_Whole(s, k) == s

\* s[:k], Python slicing (a negative k counts from the end)
SliceTo(s, k) ==
    IF k >= 0 THEN SubSeq(s, 1, Min(k, Len(s)))
    ELSE SubSeq(s, 1, Max(0, Len(s) + k))

Digit(d) == <<"0", "1", "2", "3", "4", "5", "6", "7", "8", "9">>[d + 1]

RECURSIVE NatDigits(_)
NatDigits(n) == IF n < 10 THEN <<Digit(n)>> ELSE NatDigits(n \div 10) \o <<Digit(n % 10)>>

\* decimal digits of an integer, as '%d' writes them
Decimal(n) == IF n < 0 THEN <<"-">> \o NatDigits(-n) ELSE NatDigits(n)

----------------------------------------------------------------------------
(* Numbers.  A number is a sign, the limbs (base 1000 digits, most          *)
(* significant first, no leading zero limb) of its whole part and the limbs *)
(* of its fraction (no trailing zero limb), so that the numbers __cell      *)
(* meets, up to 1000^9 and beyond, can be written down and a division by    *)
(* 1000 is a shift.  Values are exact: the last bits a float loses are not  *)
(* modelled.                                                                *)
Zero == [neg |-> FALSE, ip |-> <<>>, fp |-> <<>>]

RECURSIVE ToLimbs(_)
ToLimbs(n) == IF n = 0 THEN <<>> ELSE Append(ToLimbs(n \div 1000), n % 1000)

\* the whole number n
Whole(n) == [neg |-> n < 0, ip |-> ToLimbs(IF n < 0 THEN -n ELSE n), fp |-> <<>>]

Front(seq) == SubSeq(seq, 1, Len(seq) - 1)

RECURSIVE TrimFp(_)
TrimFp(fp) == IF fp # <<>> /\ fp[Len(fp)] = 0 THEN TrimFp(Front(fp)) ELSE fp

RECURSIVE IncLimbs(_)
IncLimbs(ip) ==
    IF ip = <<>> THEN <<1>>
    ELSE IF ip[Len(ip)] < 999 THEN [ip EXCEPT ![Len(ip)] = @ + 1]
    ELSE Append(IncLimbs(Front(ip)), 0)

Pad3(d) == <<Digit(d \div 100), Digit((d \div 10) % 10), Digit(d % 10)>>

RECURSIVE PadAll(_)
PadAll(limbs) == IF limbs = <<>> THEN <<>> ELSE Pad3(Head(limbs)) \o PadAll(Tail(limbs))

\* the decimal digits of a whole part
LimbsDigits(ip) == IF ip = <<>> THEN <<"0">> ELSE NatDigits(ip[1]) \o PadAll(Tail(ip))

SignText(num) == IF num.neg THEN <<"-">> ELSE <<>>

\* "value < 10000": true of every negative number
Below10000(num) ==
    \/ num.neg
    \/ Len(num.ip) <= 1
    \/ Len(num.ip) = 2 /\ num.ip[1] < 10

\* "value / 1000": true division (floats, and whole numbers under Python 3)
\* or floor division (whole numbers under Python 2; reached by non-negative
\* numbers only)
Div1000(num, trueDiv) ==
    IF num.ip = <<>> THEN num
    ELSE IF trueDiv
    THEN [num EXCEPT !.ip = Front(num.ip), !.fp = TrimFp(<<num.ip[Len(num.ip)]>> \o num.fp)]
    ELSE [num EXCEPT !.ip = Front(num.ip)]

\* '%.0f' % value: rounded to a whole number, ties to even
Fmt0(num) ==
    LET odd == num.ip # <<>> /\ num.ip[Len(num.ip)] % 2 = 1
        up == /\ num.fp # <<>>
              /\ \/ num.fp[1] > 500
                 \/ num.fp[1] = 500 /\ Len(num.fp) > 1
                 \/ num.fp = <<500>> /\ odd
    IN  SignText(num) \o LimbsDigits(IF up THEN IncLimbs(num.ip) ELSE num.ip)

\* '%.02f' % value: rounded to two decimal digits, ties to even
Fmt2(num) ==
    LET f1 == IF num.fp = <<>> THEN 0 ELSE num.fp[1]
        h == f1 \div 10
        rem == f1 % 10
        more == Len(num.fp) > 1
        up == rem > 5 \/ (rem = 5 /\ more) \/ (rem = 5 /\ ~more /\ h % 2 = 1)
        h2 == IF up THEN h + 1 ELSE h
        ip2 == IF h2 = 100 THEN IncLimbs(num.ip) ELSE num.ip
    IN  SignText(num) \o LimbsDigits(ip2) \o <<".", Digit((h2 % 100) \div 10), Digit(h2 % 10)>>

RECURSIVE StripZeros(_)
StripZeros(digits) ==
    IF digits # <<>> /\ digits[Len(digits)] = "0" THEN StripZeros(Front(digits)) ELSE digits

\* str(value) of a whole number
StrWhole(num) == SignText(num) \o LimbsDigits(num.ip)

\* str(value) of a float: digits, a point and the fraction digits, or the
\* exponent form from 1e16 on
StrFloat(num) ==
    LET whole == LimbsDigits(num.ip)
        frac == StripZeros(PadAll(num.fp))
        all == StripZeros(whole \o frac)
        e == Len(whole) - 1
    IN  IF Len(whole) <= 16
        THEN SignText(num) \o whole \o <<".">> \o (IF frac = <<>> THEN <<"0">> ELSE frac)
        ELSE SignText(num) \o <<all[1]>>
             \o (IF Len(all) > 1 THEN <<".">> \o SubSeq(all, 2, Len(all)) ELSE <<>>)
             \o <<"e", "+">> \o NatDigits(e)

----------------------------------------------------------------------------
(* Cell values.  A value is a record with a tag; the unused fields are     *)
(* empty.                                                                  *)
None == [tag |-> "none", s |-> <<>>, n |-> Zero, color |-> "", items |-> <<>>]
StrVal(s) == [tag |-> "str", s |-> s, n |-> Zero, color |-> "", items |-> <<>>]
NumVal(tag, num) == [tag |-> tag, s |-> <<>>, n |-> num, color |-> "", items |-> <<>>]
IntVal(n) == NumVal("int", Whole(n))
ColorStr(s, color) == [tag |-> "colorstr", s |-> s, n |-> Zero, color |-> color, items |-> <<>>]
\* a list of values that are not ColorStr
ListVal(items) == [tag |-> "list", s |-> <<>>, n |-> Zero, color |-> "", items |-> items]

\* Block.fixes, preceded by '' as the loops of __cell do
fixes == <<"k", "M", "G", "T", "P", "E", "Z", "Y">>
loopFixes == <<"">> \o fixes

FixText(fix) == IF fix = "" THEN <<>> ELSE <<fix>>

\* the loops of the numeric branches of __cell, from the i-th suffix on.
\* done = FALSE: the loop ended without returning.
RECURSIVE NumLoop(_, _, _)
NumLoop(num, i, trueDiv) ==
    IF i > Len(loopFixes) THEN [done |-> FALSE, num |-> num, i |-> i]
    ELSE IF Below10000(num) THEN [done |-> TRUE, num |-> num, i |-> i]
    ELSE NumLoop(Div1000(num, trueDiv), i + 1, trueDiv)

\* Block.__cell: the display text of a value and its colour ("" for none)
RECURSIVE Cell(_, _)
RECURSIVE JoinCells(_, _)
JoinCells(items, p3) ==
    IF items = <<>> THEN <<>>
    ELSE IF Len(items) = 1 THEN Cell(items[1], p3).text
    ELSE Cell(items[1], p3).text \o <<" ", "/", " ">> \o JoinCells(Tail(items), p3)

Cell(value, p3) ==
    CASE value.tag = "list" -> [text |-> JoinCells(value.items, p3), color |-> ""]
      [] value.tag = "int" ->
            LET r == NumLoop(value.n, 1, p3)
            IN  IF r.done THEN [text |-> Fmt0(r.num) \o FixText(loopFixes[r.i]), color |-> ""]
                ELSE \* falls through to str(value) of the value as divided
                     [text |-> IF p3 THEN StrFloat(r.num) ELSE StrWhole(r.num), color |-> ""]
      [] value.tag = "float" ->
            LET r == NumLoop(value.n, 1, TRUE)
            IN  IF r.done THEN [text |-> Fmt2(r.num) \o FixText(loopFixes[r.i]), color |-> ""]
                ELSE [text |-> StrFloat(r.num), color |-> ""]
      [] value.tag = "colorstr" -> [text |-> value.s, color |-> value.color]
      [] value.tag = "str" -> [text |-> value.s, color |-> ""]
      [] OTHER -> [text |-> <<>>, color |-> ""]

----------------------------------------------------------------------------
(* Block *)
\* Block.__init__ does not create __lines: a marker no reset can store
NoLines == <<<<[tag |-> "unset", s |-> <<>>, n |-> Zero, color |-> "", items |-> <<>>]>>>>

InitialWidth == 6       \* the floor of Block.__init__

\* Block.__init__: one width per header
NewWidths(headers) == [i \in 1..Len(headers) |-> InitialWidth]

GrownWidth_NoMax(cellLen, width) == cellLen + 2

GrownWidth_Again(cellLen, width) == Max(cellLen + 2, width + 1)

\* the growth rule of __printLine for a cell that is not the last of its line
GrownWidth(cellLen, width) == Max(cellLen + 2, width)

\* Block.__printLine from column index on (index counts from 1).  Returns the
\* column widths and the pieces written; the line always ends with a newline.
RECURSIVE printLineFrom(_, _, _, _, _, _, _, _, _)
printLineFrom(line, index, leftWidth, bold, headers, widths, cells, p3, tty) ==
    IF index > Len(line) THEN [widths |-> widths, cells |-> cells]
    ELSE
        LET cell == Cell(line[index], p3)
        IN  IF leftWidth < Len(headers[index].s)
            THEN [widths |-> widths, cells |-> cells]
            ELSE
                LET w == IF index < Len(line)
                         THEN [widths EXCEPT ![index] = GrownWidth(Len(cell.text), @)]
                         ELSE widths
                    style == IF ~tty THEN ""
                             ELSE IF cell.color # "" THEN cell.color
                             ELSE IF bold THEN "bold" ELSE ""
                    piece == [text |-> SliceTo(Ljust(cell.text, w[index]), leftWidth),
                              style |-> style, column |-> index,
                              budget |-> leftWidth, width |-> w[index]]
                IN  printLineFrom(line, index + 1, leftWidth - w[index], bold, headers,
                                  w, Append(cells, piece), p3, tty)

printLine(line, leftWidth, bold, headers, widths, p3, tty) ==
    printLineFrom(line, 1, leftWidth, bold, headers, widths, <<>>, p3, tty)

OutLine(kind, b, row, cells) == [kind |-> kind, block |-> b, row |-> row, cells |-> cells]

StopRows_AtZero(height) == height <= 0

\* the test that ends the loop of Block.print
StopRows(height) == height <= 1

HeightAfterHeader_Free(height) == height

\* the header line costs one unit of height
HeightAfterHeader(height) == height - 1

RECURSIVE printRows(_, _, _, _, _, _, _, _, _, _)

\* the loop of Block.print once row i is written as r
afterRow(b, rows, i, height, width, headers, written, p3, tty, r) ==
    printRows(b, rows, i + 1, height - 1, width, headers, r.widths,
              Append(written, OutLine("row", b, i, r.cells)), p3, tty)

\* the loop of Block.print over the rows, from row i on
printRows(b, rows, i, height, width, headers, widths, written, p3, tty) ==
    IF i > Len(rows) \/ StopRows(height)
    THEN [widths |-> widths, out |-> written, raised |-> ""]
    ELSE IF Len(rows[i]) > Len(headers)
    THEN [widths |-> widths, out |-> written, raised |-> "AssertionError"]
    ELSE
        afterRow(b, rows, i, height, width, headers, written, p3, tty,
                 printLine(rows[i], width, FALSE, headers, widths, p3, tty))

\* Block.print once the header line h is written
afterHeader(b, height, width, headers, rows, p3, tty, h) ==
    IF rows = NoLines
    THEN [widths |-> h.widths, out |-> <<OutLine("header", b, 0, h.cells)>>,
          raised |-> "AttributeError"]
    ELSE printRows(b, rows, 1, HeightAfterHeader(height), width, headers, h.widths,
                   <<OutLine("header", b, 0, h.cells)>>, p3, tty)

\* Block.print(height, width) on a block with the given headers, widths and rows
print(b, height, width, headers, widths, rows, p3, tty) ==
    IF ~(height > 1) THEN [widths |-> widths, out |-> <<>>, raised |-> "AssertionError"]
    ELSE afterHeader(b, height, width, headers, rows, p3, tty,
                     printLine(headers, width, TRUE, headers, widths, p3, tty))

\* Block.__len__
BlockLen(rows) == Len(rows)

\* Block.print when the write of piece j of output line k raises IOError
\* (piece = a cell, or the newline after the last cell written): the lines
\* before k are complete, line k has its pieces before j, and the widths of
\* the columns up to j were already grown (a column's width depends on its
\* own cell only).  k, j must name a write that print makes.
\* line k of the block was being written as full when piece j failed
failedLine(b, before, full, k, j) ==
    [widths |-> [i \in DOMAIN before.widths |->
                    IF i <= j THEN full.widths[i] ELSE before.widths[i]],
     out |-> Append(before.out, [kind |-> "partial", block |-> b, row |-> k - 1,
                                 cells |-> SubSeq(full.cells, 1, j - 1)]),
     raised |-> "IOError"]

\* the lines before line k were written as before
failingAfter(b, width, headers, rows, p3, tty, k, j, before) ==
    failedLine(b, before,
               printLine(IF k = 1 THEN headers ELSE rows[k - 1], width, k = 1, headers,
                         before.widths, p3, tty),
               k, j)

printFailing(b, height, width, headers, widths, rows, p3, tty, k, j) ==
    failingAfter(b, width, headers, rows, p3, tty, k, j,
                 IF k = 1 THEN [widths |-> widths, out |-> <<>>, raised |-> ""]
                 ELSE print(b, height, width, headers, widths, SubSeq(rows, 1, k - 2),
                            p3, tty))

\* the writes print makes: <<k, j>> for piece j of output line k
WritesOf(r) ==
    IF r.raised # "" THEN {}
    ELSE UNION { { <<k, j>> : j \in 1..(Len(r.out[k].cells) + 1) } : k \in 1..Len(r.out) }

----------------------------------------------------------------------------
(* Console.checkButton *)
NoTime == -1        \* __lastCheckTime = None
SleepUnits == 2     \* time.sleep(0.1), in units of 0.05 s

Adjusted_NoDelta(wait, elapsed) == wait

\* waitTime -= the time since the recorded timestamp
Adjusted(wait, elapsed) == wait - elapsed

StampTime_AtStart(began, ended) == began

\* the timestamp checkButton records: datetime.now() after the polling loop
StampTime(began, ended) == ended

\* select.select([sys.stdin], [], [], 0)[0]
InputReady == stdinBytes > 0

\* the loop test "waitTime > 0 and not select(...)".  waitTime is a float: a
\* value that is exactly zero in decimal may come out a hair above zero once
\* arithmetic was done on it (1.0 less ten times 0.1 is 1.4e-16).
KeepPolling ==
    /\ waitTime > 0 \/ (waitTime = 0 /\ fpExtra)
    /\ ~InputReady

\* the last entry of a log, as a log
LastCall(log) == IF log = <<>> THEN <<>> ELSE <<log[Len(log)]>>

\* checkButton(wait) up to the loop: the adjustment by the elapsed time
CheckButtonCall(wait) ==
    /\ pc = "idle"
    /\ calls < MaxCalls
    /\ pc' = "checkButton"
    /\ calls' = calls + 1
    /\ waitTime' = IF lastCheckTime # NoTime THEN Adjusted(wait, now - lastCheckTime) ELSE wait
    /\ fpExtra' \in BOOLEAN
    /\ pollLog' = Append(LastCall(pollLog), [wait |-> wait, began |-> now, ended |-> NoTime,
                                   sleeps |-> 0, byte |-> FALSE,
                                   stamp |-> lastCheckTime])
    /\ UNCHANGED <<now, lastCheckTime, stdinBytes>>
    /\ UNCHANGED <<cfgVars, cellVars, layoutVars, blockVars, outVars, termVars, askVars, sizeVars, refreshVars>>

\* one turn of the loop: time.sleep(0.1); waitTime -= 0.1
CheckButtonSleep ==
    /\ pc = "checkButton"
    /\ KeepPolling
    /\ now' = now + SleepUnits
    /\ waitTime' = waitTime - SleepUnits
    /\ fpExtra' = (fpExtra /\ waitTime # 0)
    /\ pollLog' = [pollLog EXCEPT ![Len(pollLog)].sleeps = @ + 1]
    /\ UNCHANGED <<pc, lastCheckTime, stdinBytes, calls>>
    /\ UNCHANGED <<cfgVars, cellVars, layoutVars, blockVars, outVars, termVars, askVars, sizeVars, refreshVars>>

\* after the loop: record the timestamp, return the byte if one is ready
CheckButtonReturn ==
    /\ pc = "checkButton"
    /\ ~KeepPolling
    /\ lastCheckTime' = StampTime(pollLog[Len(pollLog)].began, now)
    /\ stdinBytes' = IF InputReady THEN stdinBytes - 1 ELSE stdinBytes
    /\ pollLog' = [pollLog EXCEPT ![Len(pollLog)].ended = now,
                                  ![Len(pollLog)].byte = InputReady]
    /\ pc' = "idle"
    /\ UNCHANGED <<now, waitTime, fpExtra, calls>>
    /\ UNCHANGED <<cfgVars, cellVars, layoutVars, blockVars, outVars, termVars, askVars, sizeVars, refreshVars>>

\* the caller works for p units between two checkButton calls
Process(p) ==
    /\ pc = "idle"
    /\ pollLog # <<>>
    /\ calls < MaxCalls
    /\ now = pollLog[Len(pollLog)].ended
    /\ now' = now + p
    /\ UNCHANGED <<pc, lastCheckTime, waitTime, fpExtra, stdinBytes, calls, pollLog>>
    /\ UNCHANGED <<cfgVars, cellVars, layoutVars, blockVars, outVars, termVars, askVars, sizeVars, refreshVars>>

\* the user presses a key
KeyPress ==
    /\ stdinBytes < MaxKeys
    /\ calls < MaxCalls \/ pc = "checkButton"
    /\ stdinBytes' = stdinBytes + 1
    /\ UNCHANGED <<pc, now, lastCheckTime, waitTime, fpExtra, calls, pollLog>>
    /\ UNCHANGED <<cfgVars, cellVars, layoutVars, blockVars, outVars, termVars, askVars, sizeVars, refreshVars>>

\* wait times handed to checkButton: 0.5 s and 1.0 s
WaitTimes == {10, 20}

CheckButtonAny == \E wait \in WaitTimes : CheckButtonCall(wait)
ProcessAny == \E p \in 1..MaxProcess : Process(p)

----------------------------------------------------------------------------
(* Terminal mode: Console.__enter__, Console.__exit__, DeactiveConsole *)

\* the part of the termios attributes that tty.setcbreak changes
Attrs(echo, icanon, vmin1) == [echo |-> echo, icanon |-> icanon, vmin1 |-> vmin1]

\* Console.__settings: not created by __init__, None, or a snapshot
Unset == [kind |-> "unset", attrs |-> Attrs(FALSE, FALSE, FALSE)]
NoSettings == [kind |-> "none", attrs |-> Attrs(FALSE, FALSE, FALSE)]
Saved(a) == [kind |-> "attrs", attrs |-> a]

SetCbreak_Noop(a) == a

\* tty.setcbreak: no echo, no line buffering, one byte at a time
SetCbreak(a) == [a EXCEPT !.echo = FALSE, !.icanon = FALSE, !.vmin1 = TRUE]

IsRaw(a) == ~a.echo /\ ~a.icanon /\ a.vmin1

Snapshot_AfterCbreak(a) == SetCbreak(a)

\* termios.tcgetattr(sys.stdin) on a terminal
Snapshot(a) == a

TcgetattrFails_Never(tty) == FALSE

\* termios.tcgetattr raises termios.error when stdin is not a terminal
TcgetattrFails(tty) == ~tty

\* Console.__enter__: the settings, the terminal and whether attributes were set
enter(tty, a) ==
    IF TcgetattrFails(tty)
    THEN [settings |-> NoSettings, termAttrs |-> a, set |-> FALSE]
    ELSE [settings |-> Saved(Snapshot(a)), termAttrs |-> SetCbreak(a), set |-> TRUE]

exit_NoRestore(saved, a) ==
    [termAttrs |-> a, set |-> FALSE,
     raised |-> IF saved.kind = "unset" THEN "AttributeError" ELSE ""]

\* Console.__exit__
exit(saved, a) ==
    IF saved.kind = "unset"
    THEN [termAttrs |-> a, set |-> FALSE, raised |-> "AttributeError"]
    ELSE IF saved.kind = "attrs"
    THEN [termAttrs |-> saved.attrs, set |-> TRUE, raised |-> ""]
    ELSE [termAttrs |-> a, set |-> FALSE, raised |-> ""]

Call(op) == [op |-> op, block |-> 0, height |-> 0, width |-> 0]

\* the with statement enters the Console
Enter ==
    /\ pc = "idle"
    /\ scope = "out"
    /\ LET r == enter(stdinTty, termAttrs)
       IN  /\ settings' = r.settings
           /\ termAttrs' = r.termAttrs
           /\ attrSet' = (attrSet \/ r.set)
    /\ beforeEnter' = termAttrs
    /\ scope' = "in"
    /\ scopeAsks' = {}
    /\ raised' = ""
    /\ lastCall' = Call("enter")
    /\ UNCHANGED <<pc, stdinTty, out>>
    /\ UNCHANGED <<cfgVars, cellVars, layoutVars, blockVars, pollVars, askVars, sizeVars, refreshVars>>

\* the with statement leaves the Console, normally or by an exception
Exit ==
    /\ pc = "idle"
    /\ scope = "in"
    /\ LET r == exit(settings, termAttrs)
       IN  /\ termAttrs' = r.termAttrs
           /\ attrSet' = (attrSet \/ r.set)
           /\ raised' = r.raised
    /\ scope' = "out"
    /\ lastCall' = Call("exit")
    /\ UNCHANGED <<pc, stdinTty, settings, beforeEnter, scopeAsks, out>>
    /\ UNCHANGED <<cfgVars, cellVars, layoutVars, blockVars, pollVars, askVars, sizeVars, refreshVars>>

----------------------------------------------------------------------------
(* Console.askForInput *)

IsBlank_Never(value) == FALSE

\* "if not value"
IsBlank(value) == value = ""

BlankLine == [kind |-> "blank", block |-> 0, row |-> 0, cells |-> <<>>]

\* askForInput(*names) while the user is going to type typed: DeactiveConsole
\* leaves raw mode (Console.__exit__), then the leading blank line
AskCall(names, typed) ==
    /\ pc = "idle"
    /\ LET r == exit(settings, termAttrs)
       IN  /\ termAttrs' = r.termAttrs
           /\ attrSet' = (attrSet \/ r.set)
           /\ raised' = r.raised
           /\ pc' = IF r.raised = "" THEN "askForInput" ELSE "idle"
           /\ out' = IF r.raised = "" THEN <<BlankLine>> ELSE <<>>
    /\ rawAtCall' = (settings.kind = "attrs" /\ IsRaw(termAttrs))
    /\ attributes' = names
    /\ askIdx' = 1
    /\ values' = <<>>
    /\ stdinLines' = typed
    /\ script' = typed
    /\ prompts' = <<>>
    /\ lastCall' = Call("askForInput")
    /\ UNCHANGED <<stdinTty, settings, scope, beforeEnter, scopeAsks>>
    /\ UNCHANGED <<cfgVars, cellVars, layoutVars, blockVars, pollVars, sizeVars, refreshVars>>

\* one turn of the loop: prompt, read a line; a blank line or the end of the
\* attributes ends the loop, the end of the input raises EOFError
AskPrompt ==
    /\ pc = "askForInput"
    /\ askIdx <= Len(attributes)
    /\ prompts' = Append(prompts, attributes[askIdx])
    /\ IF stdinLines = <<>>
       THEN /\ raised' = "EOFError"
            /\ pc' = "askExit"
            /\ UNCHANGED <<values, askIdx, stdinLines>>
       ELSE /\ stdinLines' = Tail(stdinLines)
            /\ raised' = ""
            /\ IF IsBlank(Head(stdinLines))
               THEN /\ pc' = "askExit"
                    /\ UNCHANGED <<values, askIdx>>
               ELSE /\ values' = Append(values, Head(stdinLines))
                    /\ askIdx' = askIdx + 1
                    /\ pc' = IF askIdx + 1 <= Len(attributes) THEN "askForInput" ELSE "askExit"
    /\ UNCHANGED <<rawAtCall, attributes, script, out, lastCall>>
    /\ UNCHANGED <<cfgVars, cellVars, layoutVars, blockVars, pollVars, termVars, sizeVars, refreshVars>>

\* no attribute at all: the loop body never runs
AskNothing ==
    /\ pc = "askForInput"
    /\ askIdx > Len(attributes)
    /\ pc' = "askExit"
    /\ UNCHANGED <<outVars, cfgVars, cellVars, layoutVars, blockVars, pollVars, termVars, askVars, sizeVars, refreshVars>>

\* the with block ends (return or exception): DeactiveConsole.__exit__
\* calls Console.__enter__; an exception goes on to the caller
AskReturn ==
    /\ pc = "askExit"
    /\ LET r == enter(stdinTty, termAttrs)
       IN  /\ settings' = r.settings
           /\ termAttrs' = r.termAttrs
           /\ attrSet' = (attrSet \/ r.set)
    /\ scopeAsks' = scopeAsks \cup {raised}
    /\ pc' = "idle"
    /\ UNCHANGED <<stdinTty, scope, beforeEnter>>
    /\ UNCHANGED <<outVars, cfgVars, cellVars, layoutVars, blockVars, pollVars, askVars, sizeVars, refreshVars>>

Responses == {"", "Alice", "Bob"}
AllNames == <<"name", "email", "age">>
NameLists == {SubSeq(AllNames, 1, n) : n \in 0..MaxNames}
Scripts == UNION {[1..n -> Responses] : n \in 0..(MaxNames + 1)}

AskAny == \E names \in NameLists, typed \in Scripts : AskCall(names, typed)

\* the terminal before the program starts: cooked, cooked without echo, or
\* already byte-at-a-time without echo
StartAttrs == {Attrs(TRUE, TRUE, FALSE), Attrs(FALSE, TRUE, FALSE), Attrs(FALSE, FALSE, TRUE)}

InitTermVars ==
    /\ stdinTty \in BOOLEAN
    /\ termAttrs \in StartAttrs
    /\ settings = Unset
    /\ scope = "out"
    /\ attrSet = FALSE
    /\ beforeEnter = termAttrs
    /\ scopeAsks = {}

InitAskVars ==
    /\ rawAtCall = FALSE
    /\ attributes = <<>>
    /\ askIdx = 1
    /\ values = <<>>
    /\ stdinLines = <<>>
    /\ script = <<>>
    /\ prompts = <<>>

\* a Console none of whose terminal operations is used
InitQuietTerm ==
    /\ stdinTty = TRUE
    /\ termAttrs = Attrs(TRUE, TRUE, FALSE)
    /\ settings = Unset
    /\ scope = "out"
    /\ attrSet = FALSE
    /\ beforeEnter = termAttrs
    /\ scopeAsks = {}
    /\ InitAskVars

----------------------------------------------------------------------------
(* Console.refresh *)

\* the size __saveSize falls back to
FallbackHeight == 20
FallbackWidth == 80

SkipBlock_Never(n) == FALSE

\* "if not len(block)"
SkipBlock(n) == n = 0

NoRoom_Never(left) == FALSE

\* "if leftHeight <= 2"
NoRoom(left) == left <= 2

Allocated_Unbounded(n, left) == n + 2

\* the height refresh hands to print
Allocated(n, left) == IF n + 2 < left THEN n + 2 ELSE left

\* failed: "" or where a write raised IOError ("print", "separator")
LogEntry(b, n, before, after, height, separator, outBefore, outAfter, failed) ==
    [block |-> b, rows |-> n, before |-> before, after |-> after, height |-> height,
     separator |-> separator, outBefore |-> outBefore, outAfter |-> outAfter,
     failed |-> failed]

Caught_Nothing(exception) == FALSE

\* "except IOError: pass"
Caught(exception) == exception = "IOError"

\* the answer of the window-size query: a size, or IOError without a terminal
Window(height, width) == [ok |-> TRUE, height |-> height, width |-> width]
NoWindow == [ok |-> FALSE, height |-> 0, width |-> 0]

saveSize_NoFallback(query) == <<query.height, query.width>>

\* Console.__saveSize: the height and the width it stores
saveSize(query) ==
    IF query.ok THEN <<query.height, query.width>> ELSE <<FallbackHeight, FallbackWidth>>

\* SIGWINCH arrives, between any two steps of the program: the window has
\* the size (or the lack of a terminal) that the query then answers
SaveSize(query) ==
    /\ resizes < MaxResizes
    /\ winsize' = query
    /\ consoleHeight' = saveSize(query)[1]
    /\ consoleWidth' = saveSize(query)[2]
    /\ resizes' = resizes + 1
    /\ UNCHANGED <<pc, outVars, cfgVars, cellVars, layoutVars, blockVars, pollVars, termVars, askVars, refreshVars>>

\* Console.__init__ calls __saveSize once
InitSize(query) ==
    /\ winsize = query
    /\ resizes = 0
    /\ consoleHeight = saveSize(query)[1]
    /\ consoleWidth = saveSize(query)[2]

\* refresh(blocks) up to the loop: clear the screen, take the terminal height
RefreshCall(blocks) ==
    /\ pc = "idle"
    /\ out' = <<>>
    /\ raised' = ""
    /\ lastCall' = Call("refresh")
    /\ leftHeight' = consoleHeight
    /\ refreshBlocks' = blocks
    /\ refreshIdx' = 1
    /\ refreshLog' = <<>>
    /\ pc' = IF blocks = <<>> THEN "idle" ELSE "refresh"
    /\ UNCHANGED <<cfgVars, cellVars, layoutVars, blockVars, pollVars, termVars, askVars, sizeVars>>

\* one turn of the loop, for the block at refreshIdx; the loop ends after the
\* last block, at the break, or with an exception other than IOError
RefreshBlock ==
    /\ pc = "refresh"
    /\ LET b == refreshBlocks[refreshIdx]
           last == refreshIdx = Len(refreshBlocks)
           after == IF last THEN "idle" ELSE "refresh"
       IN  IF lines[b] = NoLines
           THEN /\ raised' = "AttributeError"
                /\ pc' = "idle"
                /\ UNCHANGED <<columnWidths, out, leftHeight, refreshLog, refreshIdx>>
           ELSE
             LET n == BlockLen(lines[b])
             IN  IF SkipBlock(n)
                 THEN /\ refreshLog' = Append(refreshLog,
                              LogEntry(b, n, leftHeight, leftHeight, 0, FALSE, Len(out), Len(out), ""))
                      /\ refreshIdx' = refreshIdx + 1
                      /\ pc' = after
                      /\ UNCHANGED <<columnWidths, out, leftHeight, raised>>
                 ELSE IF NoRoom(leftHeight)
                 THEN /\ pc' = "idle"
                      /\ UNCHANGED <<columnWidths, out, leftHeight, raised, refreshLog, refreshIdx>>
                 ELSE
                   \E r \in {print(b, Allocated(n, leftHeight), consoleWidth, columnHeaders[b],
                                    columnWidths[b], lines[b], py3, stdoutTty)} :
                   LET height == Allocated(n, leftHeight)
                       left == leftHeight - height
                       separator == left >= 2
                       written == IF separator THEN Append(r.out, BlankLine) ELSE r.out
                   IN  /\ columnWidths' = [columnWidths EXCEPT ![b] = r.widths]
                       /\ IF r.raised # ""
                          THEN /\ out' = out \o r.out
                               /\ raised' = r.raised
                               /\ pc' = "idle"
                               /\ UNCHANGED <<leftHeight, refreshLog, refreshIdx>>
                          ELSE /\ out' = out \o written
                               /\ leftHeight' = IF separator THEN left - 1 ELSE left
                               /\ refreshLog' = Append(refreshLog,
                                      LogEntry(b, n, leftHeight, leftHeight', height, separator,
                                               Len(out), Len(out'), ""))
                               /\ refreshIdx' = refreshIdx + 1
                               /\ pc' = after
                               /\ UNCHANGED raised
    /\ UNCHANGED <<cellVars, layoutVars, py3, stdoutTty, columnHeaders, lines, lastCall, refreshBlocks>>
    /\ UNCHANGED <<pollVars, termVars, askVars, sizeVars>>

\* one turn of the loop in which a write to standard output raises IOError:
\* inside block.print (k > 0: piece j of its line k) or at the separator
\* (k = 0).  The handler swallows it and the loop goes on.
RefreshBlockFails ==
    /\ pc = "refresh"
    /\ LET b == refreshBlocks[refreshIdx]
           last == refreshIdx = Len(refreshBlocks)
           after == IF last THEN "idle" ELSE "refresh"
       IN  /\ lines[b] # NoLines
           /\ ~SkipBlock(BlockLen(lines[b]))
           /\ ~NoRoom(leftHeight)
           /\ \E ok \in {print(b, Allocated(BlockLen(lines[b]), leftHeight), consoleWidth,
                                 columnHeaders[b], columnWidths[b], lines[b], py3, stdoutTty)} :
              LET n == BlockLen(lines[b])
                  height == Allocated(n, leftHeight)
                  left == leftHeight - height
                  points == WritesOf(ok)
                            \cup (IF ok.raised = "" /\ left >= 2 THEN {<<0, 0>>} ELSE {})
              IN  \E f \in points :
                  \E r \in {IF f[1] = 0 THEN ok
                            ELSE printFailing(b, height, consoleWidth, columnHeaders[b],
                                              columnWidths[b], lines[b], py3, stdoutTty,
                                              f[1], f[2])} :
                    LET where == IF f[1] = 0 THEN "separator" ELSE "print"
                    IN  /\ columnWidths' = [columnWidths EXCEPT ![b] = r.widths]
                        /\ out' = out \o r.out
                        /\ IF Caught("IOError")
                           THEN /\ leftHeight' = IF f[1] = 0 THEN left ELSE leftHeight
                                /\ refreshLog' = Append(refreshLog,
                                       LogEntry(b, n, leftHeight, leftHeight',
                                                height, FALSE, Len(out), Len(out'), where))
                                /\ refreshIdx' = refreshIdx + 1
                                /\ pc' = after
                                /\ UNCHANGED raised
                           ELSE /\ raised' = "IOError"
                                /\ pc' = "idle"
                                /\ UNCHANGED <<leftHeight, refreshLog, refreshIdx>>
    /\ UNCHANGED <<cellVars, layoutVars, py3, stdoutTty, columnHeaders, lines, lastCall, refreshBlocks>>
    /\ UNCHANGED <<pollVars, termVars, askVars, sizeVars>>

\* Console.__saveSize at construction: the size of the terminal or the fallback
Sizes == {Window(h, MaxWidth) : h \in 0..MaxTermHeight} \cup {NoWindow}

\* no call of __cell of its own
InitCellVars ==
    /\ cellValue = None
    /\ cellText = <<>>
    /\ passes = 0

InitRefreshVars ==
    /\ InitCellVars
    /\ refreshBlocks = <<>>
    /\ refreshIdx = 1
    /\ leftHeight = 0
    /\ refreshLog = <<>>

\* the Console of a process without a terminal size
InitFallbackSize ==
    /\ InitSize(NoWindow)
    /\ InitRefreshVars

----------------------------------------------------------------------------
(* Inputs *)
Text(n) == [i \in 1..n |-> "x"]

HeaderSets == { <<StrVal(<<"i", "d">>), StrVal(<<"o", "p">>), StrVal(<<"t">>)>> }

Values == {StrVal(Text(8)), IntVal(1234567)}

RowsOfLen(n) == [1..n -> Values]

\* rows no longer than the header count (the contract on the producer of rows)
RowsFor(headers) == UNION {RowsOfLen(n) : n \in 0..Len(headers)}

\* a row with an absent value, mixed into the row sets
OtherRow == <<None, StrVal(Text(8))>>

\* lengths of the row sets handed to reset
RowCounts == (0..MaxRows) \cup {LongRows}

\* row sets: one row alternating with OtherRow
RowSetsFor(headers) ==
    { [i \in 1..n |-> IF i % 2 = 1 THEN r ELSE OtherRow] :
        n \in RowCounts, r \in RowsFor(headers) }

\* widths handed to print
Widths == {w \in 0..MaxWidth : w % 4 = 0 \/ w = MaxWidth}

----------------------------------------------------------------------------
(* Block operations *)

\* Block.reset(lines)
reset(b, rows) ==
    /\ lines' = [lines EXCEPT ![b] = rows]
    /\ pc = "idle"
    /\ lastCall' = [op |-> "reset", block |-> b, height |-> 0, width |-> 0]
    /\ raised' = ""
    /\ out' = <<>>
    /\ UNCHANGED <<cellVars, layoutVars, py3, stdoutTty, columnHeaders, columnWidths, pc>>
    /\ UNCHANGED <<pollVars, termVars, askVars, sizeVars, refreshVars>>

\* a direct call of Block.print(height, width)
BlockPrint(b, height, width) ==
    LET r == print(b, height, width, columnHeaders[b], columnWidths[b], lines[b],
                   py3, stdoutTty)
    IN  /\ pc = "idle"
        /\ columnWidths' = [columnWidths EXCEPT ![b] = r.widths]
        /\ out' = r.out
        /\ raised' = r.raised
        /\ lastCall' = [op |-> "print", block |-> b, height |-> height, width |-> width]
        /\ UNCHANGED <<cellVars, layoutVars, py3, stdoutTty, columnHeaders, lines, pc>>
        /\ UNCHANGED <<pollVars, termVars, askVars, sizeVars, refreshVars>>

BlockReset == \E b \in DOMAIN lines : \E rows \in RowSetsFor(columnHeaders[b]) : reset(b, rows)
BlockPrintAny ==
    \E b \in DOMAIN lines : \E height \in 0..MaxHeight, width \in Widths :
        BlockPrint(b, height, width)

\* Console.__init__, as far as polling goes: no timestamp yet
InitPollVars ==
    /\ pc = "idle"
    /\ now = 0
    /\ lastCheckTime = NoTime
    /\ waitTime = 0
    /\ fpExtra = FALSE
    /\ stdinBytes = 0
    /\ calls = 0
    /\ pollLog = <<>>

InitBlock ==
    /\ InitPollVars
    /\ InitFallbackSize
    /\ InitQuietTerm
    /\ py3 = TRUE
    /\ stdoutTty \in BOOLEAN
    /\ \E h \in HeaderSets : columnHeaders = <<h>>
    /\ columnWidths = [b \in DOMAIN columnHeaders |-> NewWidths(columnHeaders[b])]
    /\ lines = [b \in DOMAIN columnHeaders |-> NoLines]
    /\ out = <<>>
    /\ raised = ""
    /\ lastCall = [op |-> "init", block |-> 0, height |-> 0, width |-> 0]

NextBlock == BlockReset \/ BlockPrintAny

SpecBlock == InitBlock /\ [][NextBlock]_vars

\* one Block, never reset, next to the polling Console
InitPoll ==
    /\ InitPollVars
    /\ InitFallbackSize
    /\ InitQuietTerm
    /\ py3 = TRUE
    /\ stdoutTty = TRUE
    /\ \E h \in HeaderSets : columnHeaders = <<h>>
    /\ columnWidths = [b \in DOMAIN columnHeaders |-> NewWidths(columnHeaders[b])]
    /\ lines = [b \in DOMAIN columnHeaders |-> NoLines]
    /\ out = <<>>
    /\ raised = ""
    /\ lastCall = [op |-> "init", block |-> 0, height |-> 0, width |-> 0]

NextPoll == CheckButtonAny \/ CheckButtonSleep \/ CheckButtonReturn \/ ProcessAny \/ KeyPress

SpecPoll == InitPoll /\ [][NextPoll]_vars

\* the Console used for its terminal mode and prompts, one poll at most
InitTerm ==
    /\ InitPollVars
    /\ InitFallbackSize
    /\ InitTermVars
    /\ InitAskVars
    /\ py3 = TRUE
    /\ stdoutTty = stdinTty
    /\ \E h \in HeaderSets : columnHeaders = <<h>>
    /\ columnWidths = [b \in DOMAIN columnHeaders |-> NewWidths(columnHeaders[b])]
    /\ lines = [b \in DOMAIN columnHeaders |-> NoLines]
    /\ out = <<>>
    /\ raised = ""
    /\ lastCall = Call("init")

TermCheckButton == calls < 1 /\ CheckButtonCall(SleepUnits)

NextTerm ==
    \/ Enter \/ Exit \/ AskAny \/ AskPrompt \/ AskNothing \/ AskReturn
    \/ TermCheckButton \/ CheckButtonSleep \/ CheckButtonReturn

SpecTerm == InitTerm /\ [][NextTerm]_vars

\* row sets of the blocks handed to refresh
RefreshRowSets == { [i \in 1..n |-> OtherRow] : n \in 0..MaxRows }

BlockLists(nBlocks) == UNION {[1..n -> 1..nBlocks] : n \in 0..MaxBlocks}

\* two Blocks and a Console that composes them
InitRefresh ==
    /\ InitPollVars
    /\ InitQuietTerm
    /\ InitRefreshVars
    /\ \E size \in Sizes : InitSize(size)
    /\ py3 = TRUE
    /\ stdoutTty = TRUE
    /\ \E h \in HeaderSets : columnHeaders = <<h, h>>
    /\ columnWidths = [b \in DOMAIN columnHeaders |-> NewWidths(columnHeaders[b])]
    /\ lines = [b \in DOMAIN columnHeaders |-> NoLines]
    /\ out = <<>>
    /\ raised = ""
    /\ lastCall = Call("init")

RefreshReset == \E b \in DOMAIN lines : \E rows \in RefreshRowSets : reset(b, rows)
RefreshAny == \E blocks \in BlockLists(Len(lines)) : RefreshCall(blocks)

NextRefresh == RefreshReset \/ RefreshAny \/ RefreshBlock \/ RefreshBlockFails

SpecRefresh == InitRefresh /\ [][NextRefresh]_vars

\* a refresh that got past the calls of len(block)
Refreshing == lastCall.op = "refresh"

\* C6: refresh never prints a block without rows: such a block writes
\* nothing (no header, no separator) and takes nothing from the remaining
\* height, wherever it stands and whatever height is left; refresh of no
\* blocks writes nothing.
C6_EmptyBlockSkipped ==
    Refreshing =>
        /\ \A k \in 1..Len(out) :
              out[k].kind \in {"header", "row"} => BlockLen(lines[out[k].block]) > 0
        /\ \A k \in 1..Len(refreshLog) :
              refreshLog[k].rows = 0 =>
                  /\ refreshLog[k].height = 0
                  /\ ~refreshLog[k].separator
                  /\ refreshLog[k].after = refreshLog[k].before
                  /\ refreshLog[k].outAfter = refreshLog[k].outBefore
        /\ (\A k \in 1..Len(refreshBlocks) : lines[refreshBlocks[k]] = <<>>) => out = <<>>
        /\ refreshBlocks = <<>> => pc = "idle" /\ out = <<>>

\* an empty block passed over with room left, and the block after it printed
C6_Witness ==
    /\ Refreshing
    /\ pc = "idle"
    /\ Len(refreshLog) = 2
    /\ refreshLog[1].rows = 0
    /\ refreshLog[1].before > 2
    /\ refreshLog[2].height > 2
    /\ out # <<>>
    /\ out[1].block = refreshLog[2].block

----------------------------------------------------------------------------
(* Claims about Block *)

DataRows(written) == Cardinality({k \in 1..Len(written) : written[k].kind = "row"})
HeaderLines(written) == Cardinality({k \in 1..Len(written) : written[k].kind = "header"})

\* a direct print call that passed its height assertion on a block with rows
PrintedRows ==
    /\ lastCall.op = "print"
    /\ lastCall.height > 1
    /\ lines[lastCall.block] # NoLines

\* C1: no step (reset or print, with any rows, height and width) decreases a
\* column width or takes it below the initial floor 6, and reset leaves the
\* column widths as they are.
C1_WidthsMonotonic ==
    [][ /\ \A b \in DOMAIN columnWidths : \A i \in 1..Len(columnWidths[b]) :
              /\ columnWidths'[b][i] >= columnWidths[b][i]
              /\ columnWidths'[b][i] >= InitialWidth
        /\ lastCall'.op = "reset" => columnWidths' = columnWidths ]_vars

\* a column that grew to 10 is printed again with a 5-character cell
C1_Witness ==
    /\ PrintedRows
    /\ Len(out) >= 2
    /\ Len(lines[1]) >= 1
    /\ Len(lines[1][1]) >= 2
    /\ lines[1][1][1] = IntVal(1234567)
    /\ Len(out[2].cells) >= 1
    /\ columnWidths[1][1] = 10

RECURSIVE SumLen(_)
\* the visible characters of the pieces of a line
SumLen(cells) ==
    IF cells = <<>> THEN 0 ELSE Len(cells[1].text) + SumLen(Tail(cells))

\* the values of an output line of block b
SourceLine(b, line) ==
    IF line.kind = "header" THEN columnHeaders[b] ELSE lines[b][line.row]

\* the budget left after the pieces of a line, out of w
BudgetAfter(cells, w) ==
    IF cells = <<>> THEN w ELSE cells[Len(cells)].budget - cells[Len(cells)].width

\* C18: a line printed with the width budget w >= 0 shows at most w
\* characters: every piece is cut to a budget that is not negative, the
\* pieces are those of the first columns of the line in order, and a column
\* was left out, with all the columns after it, only when the budget had
\* fallen below its header width.
C18_LineWithinWidth ==
    lastCall.op = "print" =>
        \A k \in 1..Len(out) :
            LET cells == out[k].cells
                b == out[k].block
                source == SourceLine(b, out[k])
            IN  /\ SumLen(cells) <= lastCall.width
                /\ Len(cells) <= Len(source)
                /\ \A j \in 1..Len(cells) :
                      /\ cells[j].column = j
                      /\ cells[j].budget >= 0
                      /\ cells[j].budget >= Len(columnHeaders[b][j].s)
                      /\ Len(cells[j].text) <= cells[j].budget
                      /\ cells[j].budget = BudgetAfter(SubSeq(cells, 1, j - 1), lastCall.width)
                /\ Len(cells) < Len(source) =>
                      BudgetAfter(cells, lastCall.width)
                          < Len(columnHeaders[b][Len(cells) + 1].s)

\* a row of three values printed at width 13: the first column takes 10, the
\* second is cut to the 3 that are left, the third is left out at -3
C18_Witness ==
    /\ lastCall.op = "print"
    /\ lastCall.width = MaxWidth
    /\ \E k \in 1..Len(out) :
          /\ out[k].kind = "row"
          /\ Len(lines[out[k].block][out[k].row]) = 3
          /\ Len(out[k].cells) = 2
          /\ Len(out[k].cells[2].text) = out[k].cells[2].budget
          /\ out[k].cells[2].budget < out[k].cells[2].width
          /\ BudgetAfter(out[k].cells, lastCall.width) < 0

\* C2 as stated: one header line followed by min(n, height - 1) data rows
C2_Original ==
    PrintedRows =>
        /\ HeaderLines(out) = 1
        /\ DataRows(out) = Min(Len(lines[lastCall.block]), lastCall.height - 1)

\* C2 (amended): print(height, width) with height > 1 on a block holding n
\* rows emits exactly 1 header line and min(n, height - 2) data rows; with
\* height = 5, 10 rows give 1 header + 3 data rows and 2 rows give 1 header + 2.
C2_RowCount ==
    PrintedRows =>
        /\ HeaderLines(out) = 1
        /\ DataRows(out) = Min(Len(lines[lastCall.block]), lastCall.height - 2)
        /\ Len(out) = 1 + DataRows(out)
        /\ (lastCall.height = 5 /\ Len(lines[lastCall.block]) = 10) => DataRows(out) = 3
        /\ (lastCall.height = 5 /\ Len(lines[lastCall.block]) = 2) => DataRows(out) = 2

\* height 5 on a block of LongRows rows: the header and 3 rows
C2_Witness ==
    /\ PrintedRows
    /\ lastCall.height = 5
    /\ Len(lines[1]) = LongRows
    /\ Len(out) = 4

\* C3: print with height > 1 writes the header line first, then the stored
\* rows in order starting with the first, one per line: the first
\* min(n, height - 2) rows, and never more than height lines in total.
C3_HeaderThenRows ==
    PrintedRows =>
        /\ Len(out) >= 1
        /\ out[1].kind = "header"
        /\ \A k \in 2..Len(out) :
              /\ out[k].kind = "row"
              /\ out[k].row = k - 1
              /\ Len(out[k].cells) <= Len(lines[lastCall.block][k - 1])
        /\ Len(out) - 1 <= Len(lines[lastCall.block])
        /\ (Len(out) - 1 < Len(lines[lastCall.block])) => Len(out) + 1 = lastCall.height
        /\ (Len(out) + 1 < lastCall.height) => Len(out) - 1 = Len(lines[lastCall.block])
        /\ Len(out) <= lastCall.height

\* the rows are cut by the height: 2 rows stored, height 3, one row written
C3_Witness ==
    /\ PrintedRows
    /\ lastCall.height = 3
    /\ Len(lines[1]) = 2
    /\ Len(out) = 2
    /\ out[2].row = 1

----------------------------------------------------------------------------
(* Claims about Console.checkButton *)

\* two completed calls are in the log and no byte was available during them
TwoQuietCalls ==
    /\ pc = "idle"
    /\ Len(pollLog) = 2
    /\ ~pollLog[1].byte
    /\ ~pollLog[2].byte
    /\ stdinBytes = 0

\* the second call began the moment the first returned, both with 1.0 s, and
\* the first had nothing to subtract
BackToBack ==
    /\ TwoQuietCalls
    /\ pollLog[1].wait = 20
    /\ pollLog[2].wait = 20
    /\ pollLog[2].began = pollLog[1].ended
    /\ pollLog[1].stamp = NoTime \/ pollLog[1].stamp = pollLog[1].began

\* C4 as stated: the two calls together poll for about ten increments
C4_Original ==
    BackToBack => pollLog[1].sleeps + pollLog[2].sleeps \in 9..11

\* C4 (amended): with no input available, two checkButton(1.0) calls issued
\* back-to-back together spend about 2.0 seconds polling, i.e. about twenty
\* 0.1 s increments (each call about ten), not about 1.0 second.
C4_TwoFullWaits ==
    BackToBack =>
        /\ pollLog[1].sleeps \in 10..11
        /\ pollLog[2].sleeps \in 10..11
        /\ pollLog[2].ended - pollLog[1].began \in 40..44

C4_Witness ==
    /\ BackToBack
    /\ pollLog[2].sleeps = 10
    /\ now = 40

\* C5: with no input available, a call after the first subtracts the time
\* elapsed since the previous call's timestamp and polls for the remainder,
\* so two consecutive returns are W apart to within one increment for every
\* processing time P < W; and every completed call (also one that returned a
\* byte or had nothing left to wait) leaves its own return time as timestamp.
C5_Cadence ==
    /\ (pc = "idle" /\ pollLog # <<>>) => lastCheckTime = pollLog[Len(pollLog)].ended
    /\ (TwoQuietCalls /\ pollLog[2].began - pollLog[1].ended < pollLog[2].wait) =>
          LET W == pollLog[2].wait
              P == pollLog[2].began - pollLog[1].ended
              polled == SleepUnits * pollLog[2].sleeps
          IN  /\ pollLog[2].stamp = pollLog[1].ended
              /\ polled >= W - P
              /\ polled <= W - P + SleepUnits
              /\ pollLog[2].ended - pollLog[1].ended >= W
              /\ pollLog[2].ended - pollLog[1].ended <= W + SleepUnits

\* a second call after 0.15 s of processing returns 1.05 s after the first
C5_Witness ==
    /\ TwoQuietCalls
    /\ pollLog[2].wait = 20
    /\ pollLog[2].began - pollLog[1].ended = 3
    /\ pollLog[2].sleeps = 9
    /\ pollLog[2].ended - pollLog[1].ended = 21

----------------------------------------------------------------------------
(* Claims about the terminal mode and askForInput *)

\* the longest prefix of the typed lines without a blank one
RECURSIVE BlankFreePrefix(_)
BlankFreePrefix(typed) ==
    IF typed = <<>> \/ Head(typed) = "" THEN <<>>
    ELSE <<Head(typed)>> \o BlankFreePrefix(Tail(typed))

FirstN(seq, n) == SubSeq(seq, 1, Min(n, Len(seq)))

AskReturned == pc = "idle" /\ lastCall.op = "askForInput" /\ raised = ""

\* C7: askForInput returns, in order, the responses given before the first
\* blank one, at most one per name; no blank value is returned, the names are
\* prompted in order and no prompt follows the first blank response.
C7_BlankStops ==
    /\ AskReturned =>
          /\ values = FirstN(BlankFreePrefix(script), Len(attributes))
          /\ \A k \in 1..Len(values) : values[k] # ""
          /\ prompts = FirstN(attributes, Len(BlankFreePrefix(script)) + 1)
    /\ lastCall.op = "askForInput" =>
          /\ Len(prompts) <= Len(BlankFreePrefix(script)) + 1
          /\ prompts = FirstN(attributes, Len(prompts))

\* "Alice" then a blank line, asked for two names, returns <<"Alice">>
C7_Witness ==
    /\ AskReturned
    /\ Len(attributes) = 2
    /\ script = <<"Alice", "">>
    /\ values = <<"Alice">>
    /\ Len(prompts) = 2

\* C8: when askForInput is called with raw mode active on an interactive
\* terminal, the terminal has the saved (cooked) settings from before the
\* first prompt until the sub-scope ends, and is raw again when askForInput
\* has ended, whatever was collected and also when reading ended abnormally.
C8_RawRestored ==
    (lastCall.op = "askForInput" /\ rawAtCall /\ stdinTty) =>
        /\ pc \in {"askForInput", "askExit"} =>
              /\ termAttrs = settings.attrs
              /\ scope = "in" => termAttrs = beforeEnter
        /\ pc = "idle" => IsRaw(termAttrs) /\ settings.kind = "attrs"

\* reading ended with EOFError after one value, on a terminal that was cooked
C8_Witness ==
    /\ lastCall.op = "askForInput"
    /\ rawAtCall
    /\ stdinTty
    /\ pc = "idle"
    /\ raised = "EOFError"
    /\ Len(values) = 1
    /\ beforeEnter.echo
    /\ IsRaw(termAttrs)

\* C9: on an interactive terminal, after enter, any askForInput and
\* checkButton calls, and exit, the terminal settings are those in force just
\* before enter.
C9_ExitRestores ==
    (lastCall.op = "exit" /\ stdinTty) => termAttrs = beforeEnter /\ raised = ""

\* a scope with a normal and an abnormal askForInput and a poll, left
C9_Witness ==
    /\ lastCall.op = "exit"
    /\ stdinTty
    /\ scopeAsks = {"", "EOFError"}
    /\ calls = 1
    /\ beforeEnter = Attrs(TRUE, TRUE, FALSE)
    /\ termAttrs = beforeEnter

\* C10: when stdin is not an interactive terminal, enter keeps no snapshot,
\* raw mode is never engaged, no operation sets terminal attributes, and
\* enter, exit and the sub-scope of askForInput surface no error.
C10_NoTerminal ==
    (~stdinTty /\ settings.kind # "unset") =>
        /\ settings = NoSettings
        /\ ~attrSet
        /\ termAttrs = beforeEnter
        /\ raised \in {"", "EOFError"}
        /\ lastCall.op \in {"enter", "exit"} => raised = ""

\* askForInput returned a value inside the scope, without a terminal
C10_Witness ==
    /\ ~stdinTty
    /\ scope = "in"
    /\ AskReturned
    /\ Len(values) = 1
    /\ settings = NoSettings

\* C13 as stated: outside the scope of the Console (before any enter and
\* after every exit) the Console holds no snapshot of the terminal mode.
C13_Original == (scope = "out") => settings.kind # "attrs"

----------------------------------------------------------------------------
(* The resize handler among the other operations *)

\* the window sizes SIGWINCH reports, and the loss of the terminal
ResizeQueries == {NoWindow, Window(3, MaxWidth), Window(MaxTermHeight, MaxWidth)}

ResizeRows == { [i \in 1..n |-> OtherRow] : n \in {1, MaxRows} }

\* one Block and a Console used through all of its operations
InitResize ==
    /\ InitPollVars
    /\ InitTermVars
    /\ InitAskVars
    /\ InitRefreshVars
    /\ \E query \in ResizeQueries : InitSize(query)
    /\ py3 = TRUE
    /\ stdoutTty = stdinTty
    /\ \E h \in HeaderSets : columnHeaders = <<h>>
    /\ columnWidths = [b \in DOMAIN columnHeaders |-> NewWidths(columnHeaders[b])]
    /\ \E rows \in ResizeRows : lines = [b \in DOMAIN columnHeaders |-> rows]
    /\ out = <<>>
    /\ raised = ""
    /\ lastCall = Call("init")

\* SIGWINCH at any moment
Resize == \E query \in ResizeQueries : SaveSize(query)

\* the program: with Console() as console, one refresh of the Block twice,
\* one checkButton, one askForInput, and the end of the with block
ResizeEnter == lastCall.op = "init" /\ Enter
ResizeRefresh == lastCall.op = "enter" /\ RefreshCall(<<1, 1>>)
ResizeCheckButton == lastCall.op = "refresh" /\ TermCheckButton
ResizeAsk == lastCall.op = "refresh" /\ calls = 1 /\ AskCall(SubSeq(AllNames, 1, 1), <<"Bob">>)
ResizeExit == lastCall.op = "askForInput" /\ Exit

NextResize ==
    \/ Resize
    \/ ResizeEnter \/ ResizeExit
    \/ ResizeAsk \/ AskPrompt \/ AskReturn
    \/ ResizeCheckButton \/ CheckButtonSleep \/ CheckButtonReturn
    \/ ResizeRefresh \/ RefreshBlock

SpecResize == InitResize /\ [][NextResize]_vars

\* C14: the resize handler, whenever it runs, stores the size the query
\* answers, or 20 rows by 80 columns when the query fails, and changes
\* nothing else: no output, the terminal mode, the snapshot, the poll
\* timestamp, every block's rows and widths and the position of the
\* operation under way stay as they were.
C14_ResizeOnlySize ==
    [][resizes' # resizes =>
          /\ <<consoleHeight', consoleWidth'>> =
                IF winsize'.ok THEN <<winsize'.height, winsize'.width>>
                ELSE <<20, 80>>
          /\ UNCHANGED <<out, prompts, raised, termAttrs, settings, lastCheckTime,
                         lines, columnWidths, pc, leftHeight, refreshIdx, askIdx, now>>]_vars

\* the handler ran between two steps of a refresh, the query having failed:
\* the height refresh took at its start is no longer the stored one
C14_Witness ==
    /\ resizes > 0
    /\ pc = "refresh"
    /\ refreshLog # <<>>
    /\ ~winsize.ok
    /\ consoleHeight = 20 /\ consoleWidth = 80
    /\ leftHeight + refreshLog[1].height < 20
    /\ settings.kind = "attrs"

----------------------------------------------------------------------------
(* A Block printed again and again with the same arguments *)

LayoutValues == {StrVal(Text(2)), StrVal(Text(8)), IntVal(1234567)}

\* rows of two or three values, of different lengths from row to row
LayoutRows == [1..2 -> LayoutValues] \cup [1..3 -> LayoutValues]
LayoutRowSets == [1..1 -> LayoutRows] \cup [1..2 -> LayoutRows]

\* one Block that holds rows
InitLayout ==
    /\ InitPollVars
    /\ InitFallbackSize
    /\ InitQuietTerm
    /\ py3 = TRUE
    /\ stdoutTty = TRUE
    /\ \E h \in HeaderSets : columnHeaders = <<h>>
    /\ columnWidths = [b \in DOMAIN columnHeaders |-> NewWidths(columnHeaders[b])]
    /\ \E rows \in LayoutRowSets : lines = [b \in DOMAIN columnHeaders |-> rows]
    /\ out = <<>>
    /\ raised = ""
    /\ lastCall = Call("init")

\* Block.print(height, width), counted
PrintPass(b, height, width) ==
    /\ pc = "idle"
    /\ passes < MaxPasses
    /\ \E r \in {print(b, height, width, columnHeaders[b], columnWidths[b], lines[b],
                       py3, stdoutTty)} :
          /\ columnWidths' = [columnWidths EXCEPT ![b] = r.widths]
          /\ out' = r.out
          /\ raised' = r.raised
    /\ lastCall' = [op |-> "print", block |-> b, height |-> height, width |-> width]
    /\ passes' = passes + 1
    /\ UNCHANGED <<cellVars, py3, stdoutTty, columnHeaders, lines, pc>>
    /\ UNCHANGED <<pollVars, termVars, askVars, sizeVars, refreshVars>>

\* the first print, with any height and width
LayoutPrint ==
    /\ lastCall.op = "init"
    /\ \E height \in 0..MaxHeight, width \in Widths : PrintPass(1, height, width)

\* the same print once more
LayoutAgain ==
    /\ lastCall.op = "print"
    /\ PrintPass(lastCall.block, lastCall.height, lastCall.width)

NextLayout == LayoutPrint \/ LayoutAgain

SpecLayout == InitLayout /\ [][NextLayout]_vars

\* the visible characters of the lines written
Visible(written) ==
    [k \in DOMAIN written |->
        [j \in DOMAIN written[k].cells |-> written[k].cells[j].text]]

\* C19: a print that follows a print of the same block with the same rows,
\* height and width changes no column width, and from the third print of
\* such a run on the visible lines are those of the print before.
C19_LayoutConverges ==
    [][(/\ lastCall.op = "print"
        /\ lastCall' = lastCall
        /\ lines' = lines
        /\ passes' = passes + 1) =>
            /\ columnWidths' = columnWidths
            /\ passes >= 2 => Visible(out') = Visible(out)]_vars

\* three prints of a short row above a long one: the first column grew to
\* 10 while the first print was under way, after its first row was written
C19_Witness ==
    /\ passes = 3
    /\ lastCall.op = "print"
    /\ lastCall.height = MaxHeight
    /\ lastCall.width = MaxWidth
    /\ Len(lines[1]) = 2
    /\ lines[1][1][1] = StrVal(Text(2))
    /\ lines[1][2][1] = StrVal(Text(8))
    /\ columnWidths[1][1] = 10
    /\ Len(out) = 3
    /\ Len(out[2].cells[1].text) = 10

----------------------------------------------------------------------------
(* Block.__cell on its own *)

Zeros(n) == [i \in 1..n |-> 0]

\* whole parts: 1, 9, 10, 12, 15, 999 and 9999 followed by limbs that are
\* zero, just below a half, a half, or just above it, and then zero limbs
Leads == {1, 9, 10, 12, 15, 999, 9999}
Middles == {<<>>, <<345>>, <<499, 999>>, <<500>>, <<500, 1>>}

BigParts ==
    { ToLimbs(m) \o mid \o Zeros(e) :
        m \in Leads, mid \in Middles, e \in 0..(MaxExp - 1) }
SmallParts == { ToLimbs(n) : n \in 0..MaxSmall } \cup { ToLimbs(n) : n \in {999, 9999, 10000, 12345} }
WholeParts == {ip \in BigParts \cup SmallParts : Len(ip) <= MaxExp + 2}

Fractions == {<<600>>, <<4>>, <<125>>, <<994, 100>>}

WholeNumbers == { [neg |-> neg, ip |-> ip, fp |-> <<>>] : neg \in BOOLEAN, ip \in WholeParts \ {<<>>} }
                \cup {Zero}
FractionalNumbers ==
    { [neg |-> neg, ip |-> ip, fp |-> fp] : neg \in BOOLEAN, ip \in WholeParts, fp \in Fractions }

CellInputs ==
    { NumVal("int", num) : num \in WholeNumbers }
    \cup { NumVal("float", num) : num \in FractionalNumbers }
    \cup { None, StrVal(Text(3)), ColorStr(Text(2), "RED"),
           ListVal(<<IntVal(3), IntVal(7)>>), ListVal(<<>>) }

\* self.__cell(value)
FormatCell ==
    /\ pc = "idle"
    /\ lastCall.op = "init"
    /\ cellText' = Cell(cellValue, py3).text
    /\ lastCall' = Call("cell")
    /\ UNCHANGED <<cellValue, layoutVars, py3, stdoutTty, out, raised, pc>>
    /\ UNCHANGED <<blockVars, pollVars, termVars, askVars, sizeVars, refreshVars>>

InitCell ==
    /\ InitPollVars
    /\ InitQuietTerm
    /\ InitSize(NoWindow)
    /\ refreshBlocks = <<>>
    /\ refreshIdx = 1
    /\ leftHeight = 0
    /\ refreshLog = <<>>
    /\ cellValue \in CellInputs
    /\ cellText = <<>>
    /\ passes = 0
    /\ py3 \in BOOLEAN
    /\ stdoutTty = TRUE
    /\ \E h \in HeaderSets : columnHeaders = <<h>>
    /\ columnWidths = [b \in DOMAIN columnHeaders |-> NewWidths(columnHeaders[b])]
    /\ lines = [b \in DOMAIN columnHeaders |-> NoLines]
    /\ out = <<>>
    /\ raised = ""
    /\ lastCall = Call("init")

NextCell == FormatCell

SpecCell == InitCell /\ [][NextCell]_vars

----------------------------------------------------------------------------
(* Claims about Block.__cell *)

Formatted == lastCall.op = "cell"

Suffixes == {fixes[i] : i \in 1..Len(fixes)}

\* the suffix a text ends with ("" for none)
SuffixOf(text) ==
    IF text # <<>> /\ text[Len(text)] \in Suffixes THEN text[Len(text)] ELSE ""

WithoutSuffix(text) == IF SuffixOf(text) = "" THEN text ELSE Front(text)

\* the magnitude (sign dropped) is below 10000
MagnitudeBelow10000(num) ==
    \/ Len(num.ip) <= 1
    \/ Len(num.ip) = 2 /\ num.ip[1] < 10

\* the least number of divisions by 1000 that brings the magnitude below 10000
Divisions(num) ==
    IF MagnitudeBelow10000(num) THEN 0
    ELSE IF num.ip[1] < 10 THEN Len(num.ip) - 2 ELSE Len(num.ip) - 1

\* the texts of the whole numbers below 10000
SmallTexts == {NatDigits(m) : m \in 0..9999}

\* C12 as stated: a non-negative whole number below 10000 is written with
\* its digits and no suffix; any other one as a magnitude below 10000
\* followed by the k-th suffix, k the least number of divisions by 1000 that
\* brings it below 10000.
C12_Original ==
    (Formatted /\ cellValue.tag = "int" /\ ~cellValue.n.neg) =>
        LET k == Divisions(cellValue.n)
        IN  IF k = 0 THEN cellText = LimbsDigits(cellValue.n.ip)
            ELSE /\ k <= Len(fixes)
                 /\ SuffixOf(cellText) = fixes[k]
                 /\ WithoutSuffix(cellText) \in SmallTexts

\* C16 as stated: a negative number is divided and given a suffix as often
\* as the positive number of the same magnitude.
C16_Original ==
    (Formatted /\ cellValue.tag \in {"int", "float"} /\ cellValue.n.neg) =>
        LET positive == [cellValue EXCEPT !.n.neg = FALSE]
        IN  /\ SuffixOf(cellText) = SuffixOf(Cell(positive, py3).text)
            /\ ~MagnitudeBelow10000(cellValue.n) => SuffixOf(cellText) # ""

\* C17 as stated: a number that was divided is written with the suffix of
\* the number of divisions made, never as a bare number.
C17_Original ==
    (Formatted /\ cellValue.tag \in {"int", "float"}
        /\ ~cellValue.n.neg /\ ~MagnitudeBelow10000(cellValue.n)) =>
        /\ SuffixOf(cellText) # ""
        /\ Divisions(cellValue.n) <= Len(fixes) =>
              SuffixOf(cellText) = fixes[Divisions(cellValue.n)]

----------------------------------------------------------------------------
(* Claims about Console.refresh *)

\* C11: a write failure while refresh renders a block (in any line of the
\* block or at its separator) does not leave refresh: the loop goes on with
\* the later blocks under the same rules; a block whose print failed takes
\* nothing from the remaining height and gets no separator.
C11_WriteFailureContained ==
    Refreshing =>
        /\ raised # "IOError"
        /\ \A k \in 1..Len(refreshLog) :
              LET e == refreshLog[k]
              IN  /\ e.failed = "print" => e.after = e.before /\ ~e.separator
                  /\ e.failed = "separator" => e.after = e.before - e.height /\ ~e.separator
                  /\ e.rows > 0 => ~NoRoom(e.before) /\ e.height = Allocated(e.rows, e.before)
                  /\ k > 1 => e.before = refreshLog[k - 1].after
                  /\ e.block = refreshBlocks[k]
        /\ (pc = "refresh" /\ refreshLog # <<>>) => refreshIdx = Len(refreshLog) + 1
        /\ (pc = "idle" /\ raised = "" /\ Len(refreshLog) < Len(refreshBlocks)) =>
              /\ NoRoom(leftHeight)
              /\ BlockLen(lines[refreshBlocks[Len(refreshLog) + 1]]) > 0

\* the print of the first block failed, the second block was printed whole
C11_Witness ==
    /\ Refreshing
    /\ pc = "idle"
    /\ Len(refreshLog) = 2
    /\ refreshLog[1].failed = "print"
    /\ refreshLog[2].failed = ""
    /\ refreshLog[2].height > 2
    /\ refreshLog[2].before = consoleHeight

\* C15: every call of print that refresh makes is for a block with rows, at
\* a remaining height above 2, with height = min(rows + 2, remaining height),
\* so that the assertion height > 1 of print never fails; a block with rows
\* met at a remaining height of 2 or less ends the loop unprinted.
C15_PrintPrecondition ==
    Refreshing =>
        /\ raised # "AssertionError"
        /\ \A k \in 1..Len(refreshLog) :
              LET e == refreshLog[k]
              IN  /\ e.rows > 0 =>
                        /\ e.before > 2
                        /\ e.height = Min(e.rows + 2, e.before)
                        /\ e.height > 1
                  /\ e.outAfter > e.outBefore => e.rows > 0
        /\ \A k \in 1..Len(out) :
              out[k].kind \in {"header", "row", "partial"} =>
                  \E j \in 1..Len(refreshLog) :
                      /\ refreshLog[j].block = out[k].block
                      /\ refreshLog[j].outBefore < k /\ k <= refreshLog[j].outAfter
                      /\ refreshLog[j].before > 2

\* the first block got its rows + 2, the second the remaining height, which
\* was less, and after it no height is left
C15_Witness ==
    /\ Refreshing
    /\ pc = "idle"
    /\ raised = ""
    /\ Len(refreshLog) = 2
    /\ refreshLog[1].height = refreshLog[1].rows + 2
    /\ refreshLog[1].height < refreshLog[1].before
    /\ refreshLog[2].height = refreshLog[2].before
    /\ refreshLog[2].height < refreshLog[2].rows + 2
    /\ leftHeight <= 2

\* no write of this refresh has failed
NoWriteFailed ==
    /\ raised # "IOError"
    /\ \A k \in 1..Len(refreshLog) : refreshLog[k].failed = ""

\* C20: a refresh in which no write fails writes at most as many lines
\* (headers, rows and separators together) as the terminal is high, and its
\* remaining height never goes below zero.
C20_WithinHeight ==
    (Refreshing /\ NoWriteFailed) =>
        /\ Len(out) <= consoleHeight
        /\ leftHeight >= 0
        /\ \A k \in 1..Len(refreshLog) :
              /\ refreshLog[k].after >= 0
              /\ refreshLog[k].outAfter <= consoleHeight - refreshLog[k].after

\* two blocks and the separator between them used the height up
C20_Witness ==
    /\ Refreshing
    /\ pc = "idle"
    /\ NoWriteFailed
    /\ Len(refreshLog) = 2
    /\ refreshLog[1].separator
    /\ refreshLog[2].height > 2
    /\ leftHeight = 0
    /\ Len(out) > 4
    /\ consoleHeight > 0

====
